---- MODULE Spec2Model ----
(***************************************************************************)
(* Model of the scouting core of fbref-scouting-tool                        *)
(* (src/analysis/player_scout.py): the percentile normalizer, the four     *)
(* role scorers and the complete-midfielder composer.                      *)
(*                                                                         *)
(* Numbers are Python floats.  A float is modelled as an exact rational    *)
(* [n |-> numerator, d |-> denominator] in lowest terms with d > 0; the    *)
(* non-finite floats have d = 0: NaN is n = 0, +Inf is n = 1, -Inf is      *)
(* n = -1.  Rounding error of finite arithmetic is not modelled.           *)
(***************************************************************************)
EXTENDS Integers, Sequences, FiniteSets, TLC

VARIABLES series, passing_df, shooting_df, possession_df, defensive_df,
          min_shots, results, result, pc

vars == <<series, passing_df, shooting_df, possession_df, defensive_df,
          min_shots, results, result, pc>>

----------------------------------------------------------------------------
(* Bounds of the explored inputs                                           *)

MaxLen == 3
MaxPad == 20
MaxVal == 2
MaxRows == 3

----------------------------------------------------------------------------
(* Float arithmetic (IEEE semantics of NaN and the infinities)             *)

Abs(x) == IF x < 0 THEN -x ELSE x

Sign(x) == IF x < 0 THEN -1 ELSE IF x > 0 THEN 1 ELSE 0

RECURSIVE GCD(_, _)
GCD(a, b) == IF b = 0 THEN a ELSE GCD(b, a % b)

Float(n, d) ==
    IF d = 0 THEN [n |-> Sign(n), d |-> 0]
    ELSE LET g == GCD(Abs(n), Abs(d))
             s == Sign(d)
         IN  [n |-> s * (n \div g), d |-> s * (d \div g)]

NaN == [n |-> 0, d |-> 0]
Inf == [n |-> 1, d |-> 0]

IsNaN(a) == a.d = 0 /\ a.n = 0
IsInf(a) == a.d = 0 /\ a.n # 0
IsFinite(a) == a.d > 0

FNeg(a) == [n |-> -a.n, d |-> a.d]

FAdd(a, b) ==
    IF IsNaN(a) \/ IsNaN(b) THEN NaN
    ELSE IF IsInf(a) THEN (IF IsInf(b) /\ b.n # a.n THEN NaN ELSE a)
    ELSE IF IsInf(b) THEN b
    ELSE LET g == GCD(a.d, b.d)
         IN  Float(a.n * (b.d \div g) + b.n * (a.d \div g), (a.d \div g) * b.d)

FSub(a, b) == FAdd(a, FNeg(b))

FMul(a, b) ==
    IF IsNaN(a) \/ IsNaN(b) THEN NaN
    ELSE IF IsInf(a) \/ IsInf(b)
         THEN [n |-> Sign(a.n) * Sign(b.n), d |-> 0]
    ELSE LET g1 == GCD(Abs(a.n), b.d)
             g2 == GCD(Abs(b.n), a.d)
         IN  Float((a.n \div g1) * (b.n \div g2), (a.d \div g2) * (b.d \div g1))

FDiv(a, b) ==
    IF IsNaN(a) \/ IsNaN(b) THEN NaN
    ELSE IF IsInf(a) THEN (IF IsInf(b) THEN NaN
                           ELSE [n |-> a.n * (IF b.n < 0 THEN -1 ELSE 1), d |-> 0])
    ELSE IF IsInf(b) THEN Float(0, 1)
    ELSE IF b.n = 0 THEN [n |-> Sign(a.n), d |-> 0]
    ELSE LET g1 == GCD(Abs(a.n), Abs(b.n))
             g2 == GCD(a.d, b.d)
         IN  Float((a.n \div g1) * (b.d \div g2), (a.d \div g2) * (b.n \div g1))

FLt(a, b) ==
    /\ ~IsNaN(a) /\ ~IsNaN(b)
    /\ IF IsInf(a) THEN a.n < 0 /\ ~(IsInf(b) /\ b.n < 0)
       ELSE IF IsInf(b) THEN b.n > 0
       ELSE LET g == GCD(a.d, b.d)
            IN  a.n * (b.d \div g) < b.n * (a.d \div g)

FEq(a, b) == ~IsNaN(a) /\ ~IsNaN(b) /\ a = b

FLe(a, b) == FLt(a, b) \/ FEq(a, b)

FGe(a, b) == FLe(b, a)

----------------------------------------------------------------------------
(* pandas.Series.quantile(q), q = q100/100, linear interpolation           *)

NotNaIdx(s) == {i \in 1..Len(s) : ~IsNaN(s[i])}

\* the k-th smallest (k = 1..n) of the non-NaN values of s
KthSmallest(s, k) ==
    LET I == NotNaIdx(s)
        i == CHOOSE i \in I :
                /\ Cardinality({j \in I : FLt(s[j], s[i])}) < k
                /\ Cardinality({j \in I : FLe(s[j], s[i])}) >= k
    IN  s[i]

quantile(s, q100) ==
    LET n == Cardinality(NotNaIdx(s))
    IN  IF n = 0 THEN NaN
        ELSE LET pos == (n - 1) * q100
                 k   == pos \div 100
                 r   == pos % 100
                 a   == KthSmallest(s, k + 1)
                 b   == KthSmallest(s, IF k + 2 > n THEN n ELSE k + 2)
             IN  FAdd(a, FMul(FSub(b, a), Float(r, 100)))

----------------------------------------------------------------------------
(* normalize_metric                                                        *)

\* a plausible slip: the rescaled value clipped to [0, 1]
normalize_metric_clipped(s) ==
    LET min_val == quantile(s, 5)
        max_val == quantile(s, 95)
        Clip(x) == IF FLt(x, Float(0, 1)) THEN Float(0, 1)
                   ELSE IF FLt(Float(1, 1), x) THEN Float(1, 1) ELSE x
    IN  [i \in 1..Len(s) |->
            Clip(FDiv(FSub(s[i], min_val), FSub(max_val, min_val)))]

normalize_metric(s) ==
    LET min_val == quantile(s, 5)
        max_val == quantile(s, 95)
    IN  [i \in 1..Len(s) |-> FDiv(FSub(s[i], min_val), FSub(max_val, min_val))]

----------------------------------------------------------------------------
(* Inputs of the normalizer: every column of at most MaxLen values,        *)
(* followed by at most MaxPad repetitions of one value                     *)

Values == {Float(v, 1) : v \in 0..MaxVal}

SeqsUpTo(S, n) == UNION {[1..k -> S] : k \in 0..n}

Repeat(v, k) == [i \in 1..k |-> v]

Columns == {b \o Repeat(v, k) : b \in SeqsUpTo(Values, MaxLen),
                                v \in Values, k \in 0..MaxPad}

NoTable == [cols |-> {}, rows |-> <<>>]

NoResult == [kind |-> "none"]

NoResults == <<>>

InitNorm ==
    /\ series \in Columns
    /\ passing_df = NoTable
    /\ shooting_df = NoTable
    /\ possession_df = NoTable
    /\ defensive_df = NoTable
    /\ min_shots = 20
    /\ results = NoResults
    /\ result = NoResult
    /\ pc = "ready"

CallNormalize ==
    /\ pc = "ready"
    /\ result' = [kind |-> "series", values |-> normalize_metric(series)]
    /\ pc' = "normalize_metric"
    /\ UNCHANGED <<series, passing_df, shooting_df, possession_df,
                   defensive_df, min_shots, results>>

NextNorm == CallNormalize

SpecNorm == InitNorm /\ [][NextNorm]_vars

----------------------------------------------------------------------------
(* pandas.DataFrame: the set of column names and the rows in order; a row  *)
(* is a function from column name to value                                 *)

DataFrame(cols, rows) == [cols |-> cols, rows |-> rows]

NRows(df) == Len(df.rows)

\* df[c]
Col(df, c) == [i \in 1..NRows(df) |-> df.rows[i][c]]

\* df[c] = vals
SetCol(df, c, vals) ==
    DataFrame(df.cols \cup {c},
              [i \in 1..NRows(df) |-> (c :> vals[i]) @@ df.rows[i]])

\* df[[c1, c2, ...]]
Project(df, cs) ==
    DataFrame(cs, [i \in 1..NRows(df) |-> [c \in cs |-> df.rows[i][c]]])

\* series / series and series - series, elementwise
SDiv(a, b) == [i \in 1..Len(a) |-> FDiv(a[i], b[i])]
SSub(a, b) == [i \in 1..Len(a) |-> FSub(a[i], b[i])]

\* the first column of the access order cs that df lacks, "" when none
RECURSIVE FirstMissing(_, _)
FirstMissing(df, cs) ==
    IF cs = <<>> THEN ""
    ELSE IF Head(cs) \notin df.cols THEN Head(cs)
    ELSE FirstMissing(df, Tail(cs))

\* the KeyError pandas raises for the column c, and the columns the scorer
\* had assigned to its copy by then
KeyError(c, computed) == [kind |-> "KeyError", key |-> c, computed |-> computed]

\* the statements of a scorer as a sequence of <<columns read, columns
\* assigned>>: the exception of the first statement that reads a column
\* which is neither in the table nor assigned by an earlier statement,
\* NoResult when every statement finds its columns
RECURSIVE Raised(_, _, _)
Raised(cols, steps, computed) ==
    IF steps = <<>> THEN NoResult
    ELSE LET missing ==
                 FirstMissing([cols |-> cols \cup computed, rows |-> <<>>],
                              Head(steps)[1])
         IN  IF missing # "" THEN KeyError(missing, computed)
             ELSE Raised(cols, Tail(steps), computed \cup Head(steps)[2])

RECURSIVE Assigned(_)
Assigned(steps) ==
    IF steps = <<>> THEN {} ELSE Head(steps)[2] \cup Assigned(Tail(steps))

Returned(df) == [kind |-> "DataFrame", df |-> df]

\* sum(df[metric] * weight for metric, weight in weights.items()):
\* Python's sum starts from 0 and adds the terms in dictionary order;
\* weights is a sequence of <<column, weight in hundredths>>
RECURSIVE WeightedSumRow(_, _, _)
WeightedSumRow(row, weights, acc) ==
    IF weights = <<>> THEN acc
    ELSE WeightedSumRow(row, Tail(weights),
            FAdd(acc, FMul(row[Head(weights)[1]], Float(Head(weights)[2], 100))))

WeightedSum(df, weights) ==
    [i \in 1..NRows(df) |-> WeightedSumRow(df.rows[i], weights, Float(0, 1))]

\* for metric in metrics: df[f"{metric}_norm"] = normalize_metric(df[metric]);
\* metrics is a sequence of <<source column, normalized column>>
RECURSIVE NormalizeCols(_, _)
NormalizeCols(df, metrics) ==
    IF metrics = <<>> THEN df
    ELSE NormalizeCols(
            SetCol(df, Head(metrics)[2], normalize_metric(Col(df, Head(metrics)[1]))),
            Tail(metrics))

----------------------------------------------------------------------------
(* DataFrame.sort_values(by, ascending=False) with the default             *)
(* kind="quicksort", which is not a stable sort: rows with a NaN key go    *)
(* last in their input order, the others come in non-increasing key order  *)
(* and rows with equal keys in any order the sort may leave them in.       *)

RECURSIVE DescOrders(_, _)
DescOrders(key, I) ==
    IF I = {} THEN {<<>>}
    ELSE LET top == {i \in I : \A j \in I : ~FLt(key[i], key[j])}
         IN  UNION {{<<i>> \o rest : rest \in DescOrders(key, I \ {i})} : i \in top}

RECURSIVE AscIdx(_)
AscIdx(I) ==
    IF I = {} THEN <<>>
    ELSE LET m == CHOOSE i \in I : \A j \in I : i <= j
         IN  <<m>> \o AscIdx(I \ {m})

sort_values(df, by) ==
    LET key == Col(df, by)
        nan == AscIdx({i \in 1..NRows(df) : IsNaN(key[i])})
    IN  {DataFrame(df.cols, [k \in 1..NRows(df) |-> df.rows[(o \o nan)[k]]]) :
            o \in DescOrders(key, NotNaIdx(key))}

----------------------------------------------------------------------------
(* Strings are sequences of characters; NA is the missing value            *)

NA == <<"<NA>">>

\* a plausible slip: the position compared with "MF" instead of searched
str_equals(x, pat, na) == IF x = NA THEN na ELSE x = pat

\* Series.str.contains(pat, na=na) for a pattern without metacharacters
str_contains(x, pat, na) ==
    IF x = NA THEN na
    ELSE \E k \in 0..(Len(x) - Len(pat)) :
            \A m \in 1..Len(pat) : x[k + m] = pat[m]

----------------------------------------------------------------------------
(* identify_playmakers                                                     *)

\* a plausible slip: a weight mistyped, the weights no longer summing to 1
playmaker_weights_mistyped ==
    << <<"PrgP_90_norm", 45>>, <<"KP_90_norm", 30>>,
       <<"total_Cmp%_norm", 20>>, <<"Ast_90_norm", 15>> >>

\* the weights dictionary, in hundredths, in dictionary order
playmaker_weights ==
    << <<"PrgP_90_norm", 35>>, <<"KP_90_norm", 30>>,
       <<"total_Cmp%_norm", 20>>, <<"Ast_90_norm", 15>> >>

\* lines 32-52, statement by statement
playmaker_steps ==
    << << <<"PrgP", "90s">>, {"PrgP_90"} >>,
       << <<"KP", "90s">>, {"KP_90"} >>,
       << <<"Ast", "90s">>, {"Ast_90"} >>,
       << <<"PrgP_90">>, {"PrgP_90_norm"} >>,
       << <<"KP_90">>, {"KP_90_norm"} >>,
       << <<"Ast_90">>, {"Ast_90_norm"} >>,
       << <<"total_Cmp%">>, {"total_Cmp%_norm"} >>,
       << <<"PrgP_90_norm", "KP_90_norm", "total_Cmp%_norm", "Ast_90_norm">>,
          {"playmaker_score"} >> >>

playmaker_metrics(passing) ==
    LET m0 == passing
        m1 == SetCol(m0, "PrgP_90", SDiv(Col(m0, "PrgP"), Col(m0, "90s")))
        m2 == SetCol(m1, "KP_90", SDiv(Col(m1, "KP"), Col(m1, "90s")))
        m3 == SetCol(m2, "Ast_90", SDiv(Col(m2, "Ast"), Col(m2, "90s")))
        m4 == NormalizeCols(m3, << <<"PrgP_90", "PrgP_90_norm">>,
                                   <<"KP_90", "KP_90_norm">>,
                                   <<"Ast_90", "Ast_90_norm">>,
                                   <<"total_Cmp%", "total_Cmp%_norm">> >>)
    IN  SetCol(m4, "playmaker_score", WeightedSum(m4, playmaker_weights))

\* a plausible slip: .copy() left out, the columns assigned to the caller's table
identify_playmakers_inplace(passing) == playmaker_metrics(passing)

\* the caller's table after the call: line 29 works on passing_df.copy()
identify_playmakers_input(passing) == passing

identify_playmakers(passing) ==
    LET raised == Raised(passing.cols, playmaker_steps, {})
    IN  IF raised # NoResult THEN {raised}
        ELSE {Returned(t) :
                t \in sort_values(playmaker_metrics(passing), "playmaker_score")}

----------------------------------------------------------------------------
(* find_clinical_forwards                                                  *)

\* a plausible slip: the threshold compared with > instead of >=
shots_filter_strict(shooting, minshots) ==
    DataFrame(shooting.cols,
              SelectSeq(shooting.rows,
                        LAMBDA r : FLt(Float(minshots, 1), r["Sh"])))

\* shooting_df[(shooting_df["Sh"] >= min_shots)]
shots_filter(shooting, minshots) ==
    DataFrame(shooting.cols,
              SelectSeq(shooting.rows,
                        LAMBDA r : FGe(r["Sh"], Float(minshots, 1))))

efficiency_weights ==
    << <<"conversion_rate_norm", 30>>, <<"SoT%_norm", 25>>,
       <<"xG_difference_norm", 25>>, <<"Gls_90_norm", 20>> >>

\* lines 73-99, statement by statement (the filter assigns no column)
shooting_steps ==
    << << <<"Sh">>, {} >>,
       << <<"Sh", "90s">>, {"Sh_90"} >>,
       << <<"Gls", "90s">>, {"Gls_90"} >>,
       << <<"Gls", "Sh">>, {"conversion_rate"} >>,
       << <<"Gls", "xG">>, {"xG_difference"} >>,
       << <<"conversion_rate">>, {"conversion_rate_norm"} >>,
       << <<"SoT%">>, {"SoT%_norm"} >>,
       << <<"xG_difference">>, {"xG_difference_norm"} >>,
       << <<"Gls_90">>, {"Gls_90_norm"} >>,
       << <<"conversion_rate_norm", "SoT%_norm", "xG_difference_norm", "Gls_90_norm">>,
          {"efficiency_score"} >> >>

shooting_analysis(shooting, minshots) ==
    LET a0 == shots_filter(shooting, minshots)
        a1 == SetCol(a0, "Sh_90", SDiv(Col(a0, "Sh"), Col(a0, "90s")))
        a2 == SetCol(a1, "Gls_90", SDiv(Col(a1, "Gls"), Col(a1, "90s")))
        a3 == SetCol(a2, "conversion_rate", SDiv(Col(a2, "Gls"), Col(a2, "Sh")))
        a4 == SetCol(a3, "xG_difference", SSub(Col(a3, "Gls"), Col(a3, "xG")))
        a5 == NormalizeCols(a4, << <<"conversion_rate", "conversion_rate_norm">>,
                                   <<"SoT%", "SoT%_norm">>,
                                   <<"xG_difference", "xG_difference_norm">>,
                                   <<"Gls_90", "Gls_90_norm">> >>)
    IN  SetCol(a5, "efficiency_score", WeightedSum(a5, efficiency_weights))

\* the caller's table after the call: line 73 works on a filtered copy
find_clinical_forwards_input(shooting, minshots) == shooting

find_clinical_forwards(shooting, minshots) ==
    LET raised == Raised(shooting.cols, shooting_steps, {})
    IN  IF raised # NoResult THEN {raised}
        ELSE {Returned(t) :
                t \in sort_values(shooting_analysis(shooting, minshots),
                                  "efficiency_score")}

----------------------------------------------------------------------------
(* analyze_progressive_midfielders                                         *)

RECURSIVE Per90AndNormalize(_, _)
Per90AndNormalize(df, metrics) ==
    IF metrics = <<>> THEN df
    ELSE LET metric == Head(metrics)
             d1 == SetCol(df, metric \o "_90",
                          SDiv(Col(df, metric), Col(df, "90s")))
             d2 == SetCol(d1, metric \o "_norm",
                          normalize_metric(Col(d1, metric \o "_90")))
         IN  Per90AndNormalize(d2, Tail(metrics))

progression_weights ==
    << <<"PrgDist_norm", 35>>, <<"PrgC_norm", 30>>,
       <<"1/3_norm", 20>>, <<"PrgR_norm", 15>> >>

\* lines 117-135, statement by statement
progression_steps ==
    << << <<"PrgDist", "90s">>, {"PrgDist_90"} >>,
       << <<"PrgDist_90">>, {"PrgDist_norm"} >>,
       << <<"PrgC", "90s">>, {"PrgC_90"} >>,
       << <<"PrgC_90">>, {"PrgC_norm"} >>,
       << <<"1/3", "90s">>, {"1/3_90"} >>,
       << <<"1/3_90">>, {"1/3_norm"} >>,
       << <<"PrgR", "90s">>, {"PrgR_90"} >>,
       << <<"PrgR_90">>, {"PrgR_norm"} >>,
       << <<"PrgDist_norm", "PrgC_norm", "1/3_norm", "PrgR_norm">>,
          {"progression_score"} >> >>

midfield_metrics(possession) ==
    LET m1 == Per90AndNormalize(possession, <<"PrgDist", "PrgC", "1/3", "PrgR">>)
    IN  SetCol(m1, "progression_score", WeightedSum(m1, progression_weights))

\* the caller's table after the call: line 115 works on possession_df.copy()
analyze_progressive_midfielders_input(possession) == possession

analyze_progressive_midfielders(possession) ==
    LET raised == Raised(possession.cols, progression_steps, {})
    IN  IF raised # NoResult THEN {raised}
        ELSE {Returned(t) :
                t \in sort_values(midfield_metrics(possession), "progression_score")}

----------------------------------------------------------------------------
(* identify_pressing_midfielders                                           *)

\* defensive_df[(defensive_df["Pos"].str.contains("MF", na=False))]
position_filter(defensive) ==
    DataFrame(defensive.cols,
              SelectSeq(defensive.rows,
                        LAMBDA r : str_contains(r["Pos"], <<"M", "F">>, FALSE)))

\* a plausible slip: the last two weights exchanged
pressing_weights_exchanged ==
    << <<"Tkl_90_norm", 35>>, <<"Int_90_norm", 30>>,
       <<"Tkl%_norm", 15>>, <<"Att3rd_90_norm", 20>> >>

pressing_weights ==
    << <<"Tkl_90_norm", 35>>, <<"Int_90_norm", 30>>,
       <<"Tkl%_norm", 20>>, <<"Att3rd_90_norm", 15>> >>

\* lines 151-172, statement by statement (the filter assigns no column)
pressing_steps ==
    << << <<"Pos">>, {} >>,
       << <<"Tkl", "90s">>, {"Tkl_90"} >>,
       << <<"Int", "90s">>, {"Int_90"} >>,
       << <<"Att 3rd", "90s">>, {"Att3rd_90"} >>,
       << <<"Tkl_90">>, {"Tkl_90_norm"} >>,
       << <<"Int_90">>, {"Int_90_norm"} >>,
       << <<"Tkl%">>, {"Tkl%_norm"} >>,
       << <<"Att3rd_90">>, {"Att3rd_90_norm"} >>,
       << <<"Tkl_90_norm", "Int_90_norm", "Tkl%_norm", "Att3rd_90_norm">>,
          {"pressing_score"} >> >>

defensive_mids(defensive) ==
    LET d0 == position_filter(defensive)
        d1 == SetCol(d0, "Tkl_90", SDiv(Col(d0, "Tkl"), Col(d0, "90s")))
        d2 == SetCol(d1, "Int_90", SDiv(Col(d1, "Int"), Col(d1, "90s")))
        d3 == SetCol(d2, "Att3rd_90", SDiv(Col(d2, "Att 3rd"), Col(d2, "90s")))
        d4 == NormalizeCols(d3, << <<"Tkl_90", "Tkl_90_norm">>,
                                   <<"Int_90", "Int_90_norm">>,
                                   <<"Tkl%", "Tkl%_norm">>,
                                   <<"Att3rd_90", "Att3rd_90_norm">> >>)
    IN  SetCol(d4, "pressing_score", WeightedSum(d4, pressing_weights))

\* the caller's table after the call: lines 151-153 work on a filtered copy
identify_pressing_midfielders_input(defensive) == defensive

identify_pressing_midfielders(defensive) ==
    LET raised == Raised(defensive.cols, pressing_steps, {})
    IN  IF raised # NoResult THEN {raised}
        ELSE {Returned(t) :
                t \in sort_values(defensive_mids(defensive), "pressing_score")}

----------------------------------------------------------------------------
(* find_complete_midfielders                                               *)

\* a plausible slip: how="left", every left row kept, the right columns of
\* an unmatched row filled with NaN
merge_left(left, right, on) ==
    LET Matches(l) == SelectSeq(right.rows, LAMBDA r : r[on] = l[on])
        Blank == [c \in right.cols \ {on} |-> NaN]
        RECURSIVE Join(_)
        Join(ls) ==
            IF ls = <<>> THEN <<>>
            ELSE LET m == Matches(Head(ls))
                 IN  (IF m = <<>> THEN <<Head(ls) @@ Blank>>
                      ELSE [k \in 1..Len(m) |-> Head(ls) @@ m[k]])
                     \o Join(Tail(ls))
    IN  DataFrame(left.cols \cup right.cols, Join(left.rows))

\* left.merge(right, on=on, how="inner"): the order of the left keys is
\* kept, and a left row is paired with every right row of the same key
merge(left, right, on) ==
    LET Matches(l) == SelectSeq(right.rows, LAMBDA r : r[on] = l[on])
        RECURSIVE Join(_)
        Join(ls) ==
            IF ls = <<>> THEN <<>>
            ELSE LET m == Matches(Head(ls))
                 IN  [k \in 1..Len(m) |-> Head(ls) @@ m[k]] \o Join(Tail(ls))
    IN  DataFrame(left.cols \cup right.cols, Join(left.rows))

complete_weights ==
    << <<"progression_score_norm", 40>>,
       <<"pressing_score_norm", 30>>,
       <<"playmaker_score_norm", 30>> >>

\* a plausible slip: each score normalized over its own role table, before
\* the joins
complete_score_prenormalized(progressive, defensive, playmaking) ==
    LET p1 == NormalizeCols(progressive, << <<"progression_score", "progression_score_norm">> >>)
        d1 == NormalizeCols(defensive, << <<"pressing_score", "pressing_score_norm">> >>)
        k1 == NormalizeCols(playmaking, << <<"playmaker_score", "playmaker_score_norm">> >>)
        c0 == Project(p1, {"Player", "Squad", "Age", "Pos", "progression_score",
                           "progression_score_norm"})
        c1 == merge(c0, Project(d1, {"Player", "pressing_score", "pressing_score_norm"}),
                    "Player")
        c2 == merge(c1, Project(k1, {"Player", "playmaker_score", "playmaker_score_norm"}),
                    "Player")
    IN  SetCol(c2, "complete_midfielder_score", WeightedSum(c2, complete_weights))

complete_score(progressive, defensive, playmaking) ==
    LET c0 == Project(progressive, {"Player", "Squad", "Age", "Pos", "progression_score"})
        c1 == merge(c0, Project(defensive, {"Player", "pressing_score"}), "Player")
        c2 == merge(c1, Project(playmaking, {"Player", "playmaker_score"}), "Player")
        c3 == NormalizeCols(c2, << <<"progression_score", "progression_score_norm">>,
                                   <<"pressing_score", "pressing_score_norm">>,
                                   <<"playmaker_score", "playmaker_score_norm">> >>)
    IN  SetCol(c3, "complete_midfielder_score", WeightedSum(c3, complete_weights))

\* the exception of the first of the three scorer calls that raises, or
\* the KeyError of a missing identity column, NoResult when there is none;
\* the columns of the scorers that returned have been assigned by then
ComposerError(passing, possession, defensive) ==
    LET e1 == Raised(possession.cols, progression_steps, {})
        e2 == Raised(defensive.cols, pressing_steps, {})
        e3 == Raised(passing.cols, playmaker_steps, {})
        e4 == FirstMissing(possession, <<"Player", "Squad", "Age", "Pos">>)
        e5 == FirstMissing(defensive, <<"Player">>)
        e6 == FirstMissing(passing, <<"Player">>)
        a1 == Assigned(progression_steps)
        a2 == a1 \cup Assigned(pressing_steps)
        a3 == a2 \cup Assigned(playmaker_steps)
    IN  IF e1 # NoResult THEN e1
        ELSE IF e2 # NoResult THEN KeyError(e2.key, a1 \cup e2.computed)
        ELSE IF e3 # NoResult THEN KeyError(e3.key, a2 \cup e3.computed)
        ELSE IF e4 # "" THEN KeyError(e4, a3)
        ELSE IF e5 # "" THEN KeyError(e5, a3)
        ELSE IF e6 # "" THEN KeyError(e6, a3)
        ELSE NoResult

find_complete_midfielders(passing, possession, defensive) ==
    LET raised == ComposerError(passing, possession, defensive)
    IN  IF raised # NoResult THEN {raised}
        ELSE UNION UNION UNION
             {{{{Returned(t) :
                   t \in sort_values(complete_score(progressive.df, pressing.df,
                                                    playmaking.df),
                                     "complete_midfielder_score")} :
                  playmaking \in identify_playmakers(passing)} :
                 pressing \in identify_pressing_midfielders(defensive)} :
                progressive \in analyze_progressive_midfielders(possession)}

----------------------------------------------------------------------------
(* Input tables of the role scorers: every table of at most MaxRows rows   *)
(* drawn from a roster of stat lines, in any order and with repetition     *)

Range(f) == {f[i] : i \in DOMAIN f}

Ident(player, squad, age, pos) ==
    [Player |-> player, Squad |-> squad, Age |-> age, Pos |-> pos]

MF == <<"M", "F">>
MFFW == <<"M", "F", ",", "F", "W">>
FWMF == <<"F", "W", ",", "M", "F">>
FW == <<"F", "W">>
DF == <<"D", "F">>
FM == <<"F", "M">>

PassingCols == {"Player", "Squad", "Age", "Pos", "90s", "PrgP", "KP", "Ast", "total_Cmp%"}

PassingRow(id, n90, prgp, kp, ast, cmp) ==
    id @@ ("90s" :> Float(n90, 1)) @@ ("PrgP" :> Float(prgp, 1))
       @@ ("KP" :> Float(kp, 1)) @@ ("Ast" :> Float(ast, 1))
       @@ ("total_Cmp%" :> Float(cmp, 1))

PassingList ==
    << PassingRow(Ident("A", "Ajax", 21, MF), 10, 10, 10, 10, 70),
       PassingRow(Ident("B", "Bari", 22, MFFW), 20, 40, 40, 40, 80),
       PassingRow(Ident("C", "Celta", 23, MF), 10, 30, 30, 30, 90),
       PassingRow(Ident("D", "Derby", 24, FWMF), 10, 0, 0, 0, 60),
       PassingRow(Ident("A", "Aston", 19, MF), 10, 20, 20, 20, 80) >>

PassingRoster ==
    Range(PassingList)
      \cup { PassingRow(Ident("E", "Elche", 25, MF), 10, 40, 20, 0, 90) }

ShootingCols == {"Player", "Squad", "Age", "Pos", "90s", "Sh", "Gls", "xG", "SoT%"}

ShootingRow(id, n90, sh, gls, xg, sot) ==
    id @@ ("90s" :> Float(n90, 1)) @@ ("Sh" :> Float(sh, 1))
       @@ ("Gls" :> Float(gls, 1)) @@ ("xG" :> Float(xg, 1))
       @@ ("SoT%" :> Float(sot, 1))

ShootingList ==
    << ShootingRow(Ident("A", "Ajax", 21, FW), 10, 5, 1, 1, 40),
       ShootingRow(Ident("B", "Bari", 22, MFFW), 10, 25, 5, 3, 40),
       ShootingRow(Ident("C", "Celta", 23, FW), 10, 30, 3, 4, 50),
       ShootingRow(Ident("D", "Derby", 24, FWMF), 20, 20, 4, 2, 40) >>

ShootingRoster == Range(ShootingList)

MinShotsChoices == {20, 25}

PossessionCols == {"Player", "Squad", "Age", "Pos", "90s", "PrgDist", "PrgC", "1/3", "PrgR"}

PossessionRow(id, n90, prgdist, prgc, third, prgr) ==
    id @@ ("90s" :> Float(n90, 1)) @@ ("PrgDist" :> Float(prgdist, 1))
       @@ ("PrgC" :> Float(prgc, 1)) @@ ("1/3" :> Float(third, 1))
       @@ ("PrgR" :> Float(prgr, 1))

PossessionList ==
    << PossessionRow(Ident("A", "Ajax", 21, MF), 10, 20, 20, 20, 20),
       PossessionRow(Ident("B", "Bari", 22, MFFW), 20, 20, 20, 20, 20),
       PossessionRow(Ident("C", "Celta", 23, MF), 10, 0, 0, 0, 0),
       PossessionRow(Ident("A", "Aston", 19, MF), 10, 10, 10, 10, 10) >>

PossessionRoster ==
    Range(PossessionList)
      \cup { PossessionRow(Ident("D", "Derby", 24, FWMF), 10, 30, 30, 30, 30),
             PossessionRow(Ident("E", "Elche", 25, MF), 10, 40, 20, 10, 0) }

DefensiveCols == {"Player", "Squad", "Age", "Pos", "90s", "Tkl", "Int", "Att 3rd", "Tkl%"}

DefensiveRow(id, n90, tkl, int, att3rd, tklpct) ==
    id @@ ("90s" :> Float(n90, 1)) @@ ("Tkl" :> Float(tkl, 1))
       @@ ("Int" :> Float(int, 1)) @@ ("Att 3rd" :> Float(att3rd, 1))
       @@ ("Tkl%" :> Float(tklpct, 1))

DefensiveList ==
    << DefensiveRow(Ident("A", "Ajax", 21, MF), 10, 10, 10, 10, 60),
       DefensiveRow(Ident("B", "Bari", 22, MFFW), 20, 60, 60, 60, 80),
       DefensiveRow(Ident("C", "Celta", 23, FWMF), 10, 20, 20, 20, 70),
       DefensiveRow(Ident("D", "Derby", 24, FW), 10, 30, 30, 30, 80),
       DefensiveRow(Ident("A", "Aston", 19, MF), 10, 0, 0, 0, 50) >>

DefensiveRoster ==
    Range(DefensiveList)
      \cup { DefensiveRow(Ident("E", "Elche", 25, FM), 10, 10, 0, 10, 50),
             DefensiveRow(Ident("F", "Fulham", 20, NA), 10, 0, 10, 20, 50),
             DefensiveRow(Ident("G", "Genoa", 22, MF), 10, 40, 20, 0, 70) }

Tables(cols, roster) == {DataFrame(cols, rows) : rows \in SeqsUpTo(roster, MaxRows)}

Empty(cols) == DataFrame(cols, <<>>)

InitScorers ==
    /\ series = <<>>
    /\ \/ /\ passing_df \in Tables(PassingCols, PassingRoster)
          /\ shooting_df = Empty(ShootingCols)
          /\ possession_df = Empty(PossessionCols)
          /\ defensive_df = Empty(DefensiveCols)
       \/ /\ passing_df = Empty(PassingCols)
          /\ shooting_df \in Tables(ShootingCols, ShootingRoster)
          /\ possession_df = Empty(PossessionCols)
          /\ defensive_df = Empty(DefensiveCols)
       \/ /\ passing_df = Empty(PassingCols)
          /\ shooting_df = Empty(ShootingCols)
          /\ possession_df \in Tables(PossessionCols, PossessionRoster)
          /\ defensive_df = Empty(DefensiveCols)
       \/ /\ passing_df = Empty(PassingCols)
          /\ shooting_df = Empty(ShootingCols)
          /\ possession_df = Empty(PossessionCols)
          /\ defensive_df \in Tables(DefensiveCols, DefensiveRoster)
    /\ min_shots \in MinShotsChoices
    /\ results = NoResults
    /\ result = NoResult
    /\ pc = "ready"

CallIdentifyPlaymakers ==
    /\ pc = "ready"
    /\ result' \in identify_playmakers(passing_df)
    /\ pc' = "identify_playmakers"
    /\ passing_df' = identify_playmakers_input(passing_df)
    /\ UNCHANGED <<series, shooting_df, possession_df, defensive_df, min_shots, results>>

CallFindClinicalForwards ==
    /\ pc = "ready"
    /\ result' \in find_clinical_forwards(shooting_df, min_shots)
    /\ pc' = "find_clinical_forwards"
    /\ shooting_df' = find_clinical_forwards_input(shooting_df, min_shots)
    /\ UNCHANGED <<series, passing_df, possession_df, defensive_df, min_shots, results>>

CallAnalyzeProgressiveMidfielders ==
    /\ pc = "ready"
    /\ result' \in analyze_progressive_midfielders(possession_df)
    /\ pc' = "analyze_progressive_midfielders"
    /\ possession_df' = analyze_progressive_midfielders_input(possession_df)
    /\ UNCHANGED <<series, passing_df, shooting_df, defensive_df, min_shots, results>>

CallIdentifyPressingMidfielders ==
    /\ pc = "ready"
    /\ result' \in identify_pressing_midfielders(defensive_df)
    /\ pc' = "identify_pressing_midfielders"
    /\ defensive_df' = identify_pressing_midfielders_input(defensive_df)
    /\ UNCHANGED <<series, passing_df, shooting_df, possession_df, min_shots, results>>

NextScorers ==
    \/ CallIdentifyPlaymakers
    \/ CallFindClinicalForwards
    \/ CallAnalyzeProgressiveMidfielders
    \/ CallIdentifyPressingMidfielders

SpecScorers == InitScorers /\ [][NextScorers]_vars

----------------------------------------------------------------------------
(* Input tables of the composer: three tables of at most MaxRows players   *)
(* each, picked from the rosters in roster order                           *)

Picks(list) ==
    {[k \in 1..Cardinality(S) |-> list[AscIdx(S)[k]]] :
        S \in {T \in SUBSET (1..Len(list)) : Cardinality(T) <= MaxRows}}

InitComposer ==
    /\ series = <<>>
    /\ passing_df \in {DataFrame(PassingCols, rows) : rows \in Picks(PassingList)}
    /\ possession_df \in {DataFrame(PossessionCols, rows) : rows \in Picks(PossessionList)}
    /\ defensive_df \in {DataFrame(DefensiveCols, rows) : rows \in Picks(DefensiveList)}
    /\ shooting_df = Empty(ShootingCols)
    /\ min_shots = 20
    /\ results = NoResults
    /\ result = NoResult
    /\ pc = "ready"

CallFindCompleteMidfielders ==
    /\ pc = "ready"
    /\ result' \in find_complete_midfielders(passing_df, possession_df, defensive_df)
    /\ pc' = "find_complete_midfielders"
    /\ possession_df' = analyze_progressive_midfielders_input(possession_df)
    /\ defensive_df' = identify_pressing_midfielders_input(defensive_df)
    /\ passing_df' = identify_playmakers_input(passing_df)
    /\ UNCHANGED <<series, shooting_df, min_shots, results>>

NextComposer == CallFindCompleteMidfielders

SpecComposer == InitComposer /\ [][NextComposer]_vars

----------------------------------------------------------------------------
(* Input tables that lack one of the columns their scorer reads            *)

RECURSIVE Reads(_)
Reads(steps) ==
    IF steps = <<>> THEN {} ELSE Range(Head(steps)[1]) \cup Reads(Tail(steps))

\* the columns a scorer reads from the table it is given
Needed(steps) == Reads(steps) \ Assigned(steps)

\* df.drop(columns=[c])
Drop(df, c) ==
    DataFrame(df.cols \ {c},
              [i \in 1..NRows(df) |-> [k \in df.cols \ {c} |-> df.rows[i][k]]])

InitMissing ==
    /\ series = <<>>
    /\ \/ /\ \E t \in Tables(PassingCols, PassingRoster),
                c \in Needed(playmaker_steps) : passing_df = Drop(t, c)
          /\ shooting_df = Empty(ShootingCols)
          /\ possession_df = Empty(PossessionCols)
          /\ defensive_df = Empty(DefensiveCols)
       \/ /\ passing_df = Empty(PassingCols)
          /\ \E t \in Tables(ShootingCols, ShootingRoster),
                c \in Needed(shooting_steps) : shooting_df = Drop(t, c)
          /\ possession_df = Empty(PossessionCols)
          /\ defensive_df = Empty(DefensiveCols)
       \/ /\ passing_df = Empty(PassingCols)
          /\ shooting_df = Empty(ShootingCols)
          /\ \E t \in Tables(PossessionCols, PossessionRoster),
                c \in Needed(progression_steps) : possession_df = Drop(t, c)
          /\ defensive_df = Empty(DefensiveCols)
       \/ /\ passing_df = Empty(PassingCols)
          /\ shooting_df = Empty(ShootingCols)
          /\ possession_df = Empty(PossessionCols)
          /\ \E t \in Tables(DefensiveCols, DefensiveRoster),
                c \in Needed(pressing_steps) : defensive_df = Drop(t, c)
    /\ min_shots \in MinShotsChoices
    /\ results = NoResults
    /\ result = NoResult
    /\ pc = "ready"

SpecMissing == InitMissing /\ [][NextScorers]_vars

----------------------------------------------------------------------------
(* Every call of the scoring core: the four role scorers on one populated  *)
(* table, and the composer besides on the rows at the same positions of    *)
(* its three lists                                                         *)

SquadPicks ==
    {S \in SUBSET (1..Len(PossessionList)) : Cardinality(S) <= MaxRows}

Pick(list, S) == [k \in 1..Cardinality(S) |-> list[AscIdx(S)[k]]]

InitSquad ==
    /\ series = <<>>
    /\ \E S \in SquadPicks :
         /\ passing_df = DataFrame(PassingCols, Pick(PassingList, S))
         /\ possession_df = DataFrame(PossessionCols, Pick(PossessionList, S))
         /\ defensive_df = DataFrame(DefensiveCols, Pick(DefensiveList, S))
    /\ shooting_df = Empty(ShootingCols)
    /\ min_shots = 20
    /\ results = NoResults
    /\ result = NoResult
    /\ pc = "ready"

InitCalls == InitScorers \/ InitSquad

NextCalls == NextScorers \/ NextComposer

SpecCalls == InitCalls /\ [][NextCalls]_vars

----------------------------------------------------------------------------
(* generate_analysis_report (src/Scouting/main.py): a str is a sequence of *)
(* chunks, a dictionary a sequence of <<key, table>> in insertion order,   *)
(* a key the sequence of its words and underscores                         *)

top_passers == <<"top", "_", "passers">>
top_shooters == <<"top", "_", "shooters">>
top_creators == <<"top", "_", "creators">>
playmakers == <<"playmakers">>
clinical_forwards == <<"clinical", "_", "forwards">>
progressive_midfielders == <<"progressive", "_", "midfielders">>
pressing_midfielders == <<"pressing", "_", "midfielders">>
passing_quailty == <<"passing", "_", "quailty">>
complete_midfielders == <<"complete", "_", "midfielders">>
parameters == <<"parameters">>

\* a table of a category: the scorers and the loaders keep the identity
\* columns, analyze_passing_quality returns neither Age nor Pos, and the
\* parameters table has the arguments of analyze_players as columns
Listed == DataFrame(PassingCols, SubSeq(PassingList, 1, 2))

CategoryTable(category) ==
    IF category = parameters
    THEN DataFrame({"min_shots", "top_n", "positions", "min_90s", "max_age"}, <<>>)
    ELSE IF category = passing_quailty
    THEN Project(Listed, {"Player", "Squad", "90s", "total_Cmp%"})
    ELSE Project(Listed, {"Player", "Squad", "Age", "Pos", "90s"})

\* the dictionary analyze_players returns, in insertion order
analyze_players ==
    [i \in 1..10 |->
        LET category == <<top_passers, top_shooters, top_creators, playmakers,
                          clinical_forwards, progressive_midfielders,
                          pressing_midfielders, passing_quailty,
                          complete_midfielders, parameters>>[i]
        IN  <<category, CategoryTable(category)>>]

RECURSIVE Concat(_)
Concat(parts) == IF parts = <<>> THEN "" ELSE Head(parts) \o Concat(Tail(parts))

\* str.replace(old, new)
replace(key, old, new) ==
    [i \in 1..Len(key) |-> IF key[i] = old THEN new ELSE key[i]]

Capitalized(word) ==
    CASE word = "top" -> "Top"
      [] word = "passers" -> "Passers"
      [] word = "shooters" -> "Shooters"
      [] word = "creators" -> "Creators"
      [] word = "playmakers" -> "Playmakers"
      [] word = "clinical" -> "Clinical"
      [] word = "forwards" -> "Forwards"
      [] word = "progressive" -> "Progressive"
      [] word = "midfielders" -> "Midfielders"
      [] word = "pressing" -> "Pressing"
      [] word = "passing" -> "Passing"
      [] word = "quailty" -> "Quailty"
      [] word = "complete" -> "Complete"
      [] word = "parameters" -> "Parameters"
      [] OTHER -> word

\* str.title(): the first letter of every word in upper case
title(key) == [i \in 1..Len(key) |-> Capitalized(key[i])]

\* f"## {category.replace('_', ' ').title()}"
Heading(category) == "## " \o Concat(title(replace(category, "_", " ")))

\* DataFrame.to_markdown() of the four identity columns: one line per row
\* behind the header, the index shown as the position of the row and the
\* cells not padded to a common width
RECURSIVE MarkdownRows(_, _)
MarkdownRows(rows, index) ==
    IF rows = <<>> THEN ""
    ELSE "\n| " \o ToString(index) \o " | " \o Head(rows)["Player"]
            \o " | " \o Head(rows)["Squad"] \o " | " \o ToString(Head(rows)["Age"])
            \o " | " \o Concat(Head(rows)["Pos"]) \o " |"
            \o MarkdownRows(Tail(rows), index + 1)

to_markdown(df) ==
    "|  | Player | Squad | Age | Pos |\n|--|--|--|--|--|" \o MarkdownRows(df.rows, 0)

\* sep.join(parts)
RECURSIVE join(_, _)
join(sep, parts) ==
    IF Len(parts) <= 1 THEN parts
    ELSE <<Head(parts), sep>> \o join(sep, Tail(parts))

\* the loop of lines 199-205: the return statement is in the body of the
\* if, so the first category that is not "parameters" ends the call; a
\* dictionary without such a category falls off the end and returns None
RECURSIVE ReportLoop(_, _)
ReportLoop(items, report) ==
    IF items = <<>> THEN [kind |-> "None"]
    ELSE LET category == Head(items)[1]
             df == Head(items)[2]
             missing == FirstMissing(df, <<"Player", "Squad", "Age", "Pos">>)
         IN  IF category # parameters
             THEN IF missing # "" THEN KeyError(missing, {})
                  ELSE [kind |-> "str",
                        chunks |-> join("\n",
                            report \o <<Heading(category), "\n",
                                        to_markdown(Project(df, {"Player", "Squad", "Age", "Pos"})),
                                        "\n">>)]
             ELSE ReportLoop(Tail(items), report)

generate_analysis_report(dictionary) == ReportLoop(dictionary, <<>>)

\* the dictionaries given to the report: analyze_players' dictionary and
\* every dictionary made of some of its items, in the same order
InitReport ==
    /\ series = <<>>
    /\ passing_df = Empty(PassingCols)
    /\ shooting_df = Empty(ShootingCols)
    /\ possession_df = Empty(PossessionCols)
    /\ defensive_df = Empty(DefensiveCols)
    /\ min_shots = 20
    /\ results \in {Pick(analyze_players, S) : S \in SUBSET (1..Len(analyze_players))}
    /\ result = NoResult
    /\ pc = "ready"

CallGenerateAnalysisReport ==
    /\ pc = "ready"
    /\ result' = generate_analysis_report(results)
    /\ pc' = "generate_analysis_report"
    /\ UNCHANGED <<series, passing_df, shooting_df, possession_df, defensive_df,
                   min_shots, results>>

NextReport == CallGenerateAnalysisReport

SpecReport == InitReport /\ [][NextReport]_vars

----------------------------------------------------------------------------
(* Claims about the normalizer (specification SpecNorm)                    *)

NormDone == pc = "normalize_metric"

\* the column sorted ascending, by insertion
RECURSIVE InsertSorted(_, _)
InsertSorted(x, t) ==
    IF t = <<>> THEN <<x>>
    ELSE IF FLe(x, Head(t)) THEN <<x>> \o t
    ELSE <<Head(t)>> \o InsertSorted(x, Tail(t))

RECURSIVE SortAsc(_)
SortAsc(s) == IF s = <<>> THEN <<>> ELSE InsertSorted(Head(s), SortAsc(Tail(s)))

\* p-th percentile of a non-empty finite column, linear interpolation
\* between the two order statistics around position (n - 1) * p / 100
LinearPercentile(s, p) ==
    LET t  == SortAsc(s)
        n  == Len(t)
        lo == ((n - 1) * p) \div 100
        fr == Float((n - 1) * p - 100 * lo, 100)
        hi == IF lo + 2 > n THEN n ELSE lo + 2
    IN  FAdd(FMul(t[lo + 1], FSub(Float(1, 1), fr)), FMul(t[hi], fr))

\* C1: normalize applied to a column whose 5th and 95th percentiles are
\* equal ends in a DegenerateMetricError outcome and never returns a series
\* that contains NaN or Inf values.
C1_DegenerateRaises ==
    NormDone /\ series # <<>> =>
        /\ (LinearPercentile(series, 5) = LinearPercentile(series, 95)
              => result.kind = "DegenerateMetricError")
        /\ (result.kind = "series"
              => \A i \in 1..Len(series) : IsFinite(result.values[i]))

\* C9: normalize is monotonic: whenever values[i] < values[j], the result
\* at i is less than or equal to the result at j.
C9_Monotonic ==
    NormDone =>
        \A i, j \in 1..Len(series) :
            FLt(series[i], series[j])
                => FLe(result.values[i], result.values[j])

\* C10: normalize returns (value - low) / (high - low) for every element,
\* low and high being the 5th and 95th percentiles with linear
\* interpolation, and does not clamp: an element below low maps below 0,
\* an element above high maps above 1.
C10_Rescale ==
    NormDone /\ series # <<>> =>
        LET low  == LinearPercentile(series, 5)
            high == LinearPercentile(series, 95)
        IN  /\ result.kind = "series"
            /\ Len(result.values) = Len(series)
            /\ \A i \in 1..Len(series) :
                 /\ result.values[i]
                        = FDiv(FSub(series[i], low), FSub(high, low))
                 /\ FLt(series[i], low) => FLt(result.values[i], Float(0, 1))
                 /\ FLt(high, series[i]) => FLt(Float(1, 1), result.values[i])

\* witness of C10: a normalized column with an element below the 5th
\* percentile mapped below 0 and one above the 95th mapped above 1
C10_Witness ==
    /\ NormDone
    /\ \E i, j \in 1..Len(series) :
         /\ FLt(series[i], LinearPercentile(series, 5))
         /\ FLt(result.values[i], Float(0, 1))
         /\ FLt(LinearPercentile(series, 95), series[j])
         /\ FLt(Float(1, 1), result.values[j])
         /\ IsFinite(result.values[i]) /\ IsFinite(result.values[j])

----------------------------------------------------------------------------
(* Claims about the role scorers (specification SpecScorers)               *)

\* number of rows of the table df whose input columns equal the row r
Count(df, cols, r) ==
    Cardinality({i \in 1..NRows(df) : [c \in cols |-> df.rows[i][c]] = r})

\* the value of the float x as an integer comparison with the integer m
AtLeast(x, m) == x.d > 0 /\ x.n >= m * x.d

ClinicalDone == pc = "find_clinical_forwards"

\* C5: find_clinical_forwards never returns a row whose Sh is below
\* min_shots and returns every input row whose Sh is at least min_shots:
\* excluded rows are removed, not kept with a zero score.
C5_MinShotsFilter ==
    ClinicalDone =>
        /\ result.kind = "DataFrame"
        /\ \A i \in 1..NRows(result.df) : AtLeast(result.df.rows[i]["Sh"], min_shots)
        /\ \A r \in ShootingRoster :
             Count(result.df, ShootingCols, r)
               = IF AtLeast(r["Sh"], min_shots)
                 THEN Count(shooting_df, ShootingCols, r) ELSE 0
        /\ NRows(result.df)
             = Cardinality({i \in 1..NRows(shooting_df) :
                              AtLeast(shooting_df.rows[i]["Sh"], min_shots)})

\* witness of C5: Sh = [5, 25, 30] with min_shots = 20 returns exactly the
\* two rows with Sh 25 and 30
C5_Witness ==
    /\ ClinicalDone
    /\ min_shots = 20
    /\ Col(shooting_df, "Sh") = <<Float(5, 1), Float(25, 1), Float(30, 1)>>
    /\ NRows(result.df) = 2
    /\ {result.df.rows[i]["Sh"] : i \in 1..2} = {Float(25, 1), Float(30, 1)}

PressingDone == pc = "identify_pressing_midfielders"

\* the position string x has the two characters M, F next to each other
HasMF(x) == x # NA /\ \E k \in 1..(Len(x) - 1) : x[k] = "M" /\ x[k + 1] = "F"

\* C6: identify_pressing_midfielders never returns a row whose Pos does not
\* contain the substring "MF" (a missing Pos included) and keeps every row
\* whose Pos contains it, multi-position values such as "MF,FW" included.
C6_PositionFilter ==
    PressingDone =>
        /\ result.kind = "DataFrame"
        /\ \A i \in 1..NRows(result.df) : HasMF(result.df.rows[i]["Pos"])
        /\ \A r \in DefensiveRoster :
             Count(result.df, DefensiveCols, r)
               = IF HasMF(r["Pos"]) THEN Count(defensive_df, DefensiveCols, r) ELSE 0
        /\ NRows(result.df)
             = Cardinality({i \in 1..NRows(defensive_df) :
                              HasMF(defensive_df.rows[i]["Pos"])})

\* witness of C6: a "MF,FW" row kept, a row with a missing Pos and a row
\* with the position "FM" dropped
C6_Witness ==
    /\ PressingDone
    /\ {defensive_df.rows[i]["Pos"] : i \in 1..NRows(defensive_df)} = {MFFW, NA, FM}
    /\ {result.df.rows[i]["Pos"] : i \in 1..NRows(result.df)} = {MFFW}

\* the table a scorer sorts, in input order, and its composite score column
ScorerDone ==
    pc \in {"identify_playmakers", "find_clinical_forwards",
            "analyze_progressive_midfielders", "identify_pressing_midfielders"}

ScoreColumn ==
    CASE pc = "identify_playmakers" -> "playmaker_score"
      [] pc = "find_clinical_forwards" -> "efficiency_score"
      [] pc = "analyze_progressive_midfielders" -> "progression_score"
      [] pc = "identify_pressing_midfielders" -> "pressing_score"
      [] pc = "find_complete_midfielders" -> "complete_midfielder_score"

ScorerInput ==
    CASE pc = "identify_playmakers" -> passing_df
      [] pc = "find_clinical_forwards" -> shooting_df
      [] pc = "analyze_progressive_midfielders" -> possession_df
      [] pc = "identify_pressing_midfielders" -> defensive_df

\* position of the only input row of the player p
InputIndex(p) ==
    CHOOSE i \in 1..NRows(ScorerInput) : ScorerInput.rows[i]["Player"] = p

UniquePlayers(df) ==
    \A i, j \in 1..NRows(df) : df.rows[i]["Player"] = df.rows[j]["Player"] => i = j

\* C7: whenever two rows of the table being sorted have equal composite
\* scores, their relative order in the returned table is their relative
\* order in the input (the final descending sort is stable).
C7_StableSort ==
    ScorerDone /\ result.kind = "DataFrame" /\ UniquePlayers(ScorerInput) =>
        \A k, l \in 1..NRows(result.df) :
            /\ k < l
            /\ FEq(result.df.rows[k][ScoreColumn], result.df.rows[l][ScoreColumn])
            => InputIndex(result.df.rows[k]["Player"])
                 < InputIndex(result.df.rows[l]["Player"])

\* C8: the returned table is sorted in non-increasing order of its
\* composite score: of two adjacent rows the earlier row's score is greater
\* than or equal to the later row's.
C8_SortedDescending ==
    ScorerDone /\ result.kind = "DataFrame" =>
        \A k \in 1..(NRows(result.df) - 1) :
            FGe(result.df.rows[k][ScoreColumn], result.df.rows[k + 1][ScoreColumn])

----------------------------------------------------------------------------
(* Claims about the composer (specification SpecComposer)                  *)

ComposerDone == pc = "find_complete_midfielders"

Players(rows) == {rows[i]["Player"] : i \in 1..Len(rows)}

\* the rows of the three scored tables: the progressive and the playmaker
\* scorer keep every input row, the pressing scorer the midfielders
ProgressiveRows == possession_df.rows
PressingRows == SelectSeq(defensive_df.rows, LAMBDA r : HasMF(r["Pos"]))
PlaymakerRows == passing_df.rows

HasDuplicatePlayer(rows) ==
    \E i, j \in 1..Len(rows) : i # j /\ rows[i]["Player"] = rows[j]["Player"]

Min3(a, b, c) ==
    IF a <= b /\ a <= c THEN a ELSE IF b <= c THEN b ELSE c

\* C2: when one of the three scored tables has two or more rows with the
\* same Player, the composer reports the duplicate key instead of joining,
\* and its output never has more than one row for a Player.
C2_FanoutGuard ==
    ComposerDone =>
        /\ (HasDuplicatePlayer(ProgressiveRows)
              \/ HasDuplicatePlayer(PressingRows)
              \/ HasDuplicatePlayer(PlaymakerRows))
             => result.kind \in {"JoinFanoutWarning", "JoinFanoutError"}
        /\ result.kind = "DataFrame" => ~HasDuplicatePlayer(result.df.rows)

\* C3: the composer output has at most as many rows as the smallest of the
\* three scored tables, and exactly that many when their Player sets are
\* identical.
C3_RowCount ==
    ComposerDone /\ result.kind = "DataFrame" =>
        LET least == Min3(Len(ProgressiveRows), Len(PressingRows), Len(PlaymakerRows))
        IN  /\ NRows(result.df) <= least
            /\ (Players(ProgressiveRows) = Players(PressingRows)
                  /\ Players(PressingRows) = Players(PlaymakerRows))
                 => NRows(result.df) = least

\* C4: the set of Player values of the composer output is exactly the
\* intersection of the Player sets of the three scored tables.
C4_Intersection ==
    ComposerDone =>
        /\ result.kind = "DataFrame"
        /\ Players(result.df.rows)
             = (Players(ProgressiveRows) \cap Players(PressingRows))
                 \cap Players(PlaymakerRows)

\* witness of C4: {A,B,C}, {A,B,C} and {B,C,D} give exactly {B,C}
C4_Witness ==
    /\ ComposerDone
    /\ Players(ProgressiveRows) = {"A", "B", "C"}
    /\ Players(PressingRows) = {"A", "B", "C"}
    /\ Players(PlaymakerRows) = {"B", "C", "D"}
    /\ Players(result.df.rows) = {"B", "C"}

----------------------------------------------------------------------------
(* The weights of the composite scores                                      *)

RECURSIVE WeightTotal(_)
WeightTotal(weights) ==
    IF weights = <<>> THEN 0
    ELSE Head(weights)[2] + WeightTotal(Tail(weights))

AllWeights ==
    <<playmaker_weights, efficiency_weights, progression_weights,
      pressing_weights, complete_weights>>

CallDone ==
    pc \in {"identify_playmakers", "find_clinical_forwards",
            "analyze_progressive_midfielders", "identify_pressing_midfielders",
            "find_complete_midfielders"}

ScoreWeights ==
    CASE pc = "identify_playmakers" -> playmaker_weights
      [] pc = "find_clinical_forwards" -> efficiency_weights
      [] pc = "analyze_progressive_midfielders" -> progression_weights
      [] pc = "identify_pressing_midfielders" -> pressing_weights
      [] pc = "find_complete_midfielders" -> complete_weights

FiniteInputs(row) ==
    \A k \in 1..Len(ScoreWeights) : IsFinite(row[ScoreWeights[k][1]])

----------------------------------------------------------------------------
(* The caller's tables across a call                                       *)

----------------------------------------------------------------------------
(* A table that lacks a column                                             *)

ScorerSteps ==
    CASE pc = "identify_playmakers" -> playmaker_steps
      [] pc = "find_clinical_forwards" -> shooting_steps
      [] pc = "analyze_progressive_midfielders" -> progression_steps
      [] pc = "identify_pressing_midfielders" -> pressing_steps

MissingColumns == Needed(ScorerSteps) \ ScorerInput.cols

\* C13: when the table given to a scorer lacks a column the scorer reads,
\* the call fails with an error that names the missing column and the
\* scorer, and no derived, normalized or composite column has been
\* computed by then.
C13_MissingColumnError ==
    ScorerDone /\ MissingColumns # {} =>
        /\ result.kind \notin {"none", "DataFrame"}
        /\ result.key \in MissingColumns
        /\ "scorer" \in DOMAIN result
        /\ result.scorer = pc
        /\ result.computed = {}

----------------------------------------------------------------------------
(* A filter that leaves no row                                             *)

\* the rows the scorer's filter keeps
Kept ==
    CASE pc = "find_clinical_forwards" -> shots_filter(shooting_df, min_shots)
      [] pc = "identify_pressing_midfielders" -> position_filter(defensive_df)

\* the columns the scorer hands to normalize_metric
MetricsToNormalize ==
    CASE pc = "find_clinical_forwards" ->
            {"conversion_rate", "SoT%", "xG_difference", "Gls_90"}
      [] pc = "identify_pressing_midfielders" ->
            {"Tkl_90", "Int_90", "Tkl%", "Att3rd_90"}

AllFilteredOut ==
    /\ pc \in {"find_clinical_forwards", "identify_pressing_midfielders"}
    /\ NRows(ScorerInput) > 0
    /\ NRows(Kept) = 0

\* C14: when the min-shots filter or the position filter removes every row
\* of a table, the scorer returns a table of zero rows and no error, unless
\* the computation takes a percentile of the empty series, and then the
\* outcome is a DegenerateMetricError; no row with a non-finite score is
\* returned.
C14_EmptyAfterFilter ==
    AllFilteredOut =>
        IF MetricsToNormalize # {}
        THEN result.kind = "DegenerateMetricError"
        ELSE /\ result.kind = "DataFrame"
             /\ NRows(result.df) = 0

\* what the scorers return in that case
EmptyTableReturned ==
    AllFilteredOut => result.kind = "DataFrame" /\ NRows(result.df) = 0

----------------------------------------------------------------------------
(* The weights of the pressing score                                       *)

\* 0.35 a + 0.30 b + 0.20 c + 0.15 d
Blend(a, b, c, d) ==
    FAdd(FAdd(FAdd(FMul(Float(35, 100), a), FMul(Float(30, 100), b)),
              FMul(Float(20, 100), c)),
         FMul(Float(15, 100), d))

\* C15 as stated: for every returned row, pressing_score is 0.35 of the
\* normalized Tkl/90s plus 0.30 of the normalized Int/90s plus 0.20 of the
\* normalized Att3rd/90s plus 0.15 of the normalized Tkl%.
C15_WeightsInTableOrder ==
    PressingDone /\ result.kind = "DataFrame" =>
        \A r \in 1..NRows(result.df) :
            LET row == result.df.rows[r] IN
            row["pressing_score"] =
                Blend(row["Tkl_90_norm"], row["Int_90_norm"],
                      row["Att3rd_90_norm"], row["Tkl%_norm"])

\* C15 amended: for every returned row, pressing_score is 0.35 of the
\* normalized Tkl/90s plus 0.30 of the normalized Int/90s plus 0.20 of the
\* normalized Tkl% plus 0.15 of the normalized Att3rd/90s.
C15_PressingWeights ==
    PressingDone /\ result.kind = "DataFrame" =>
        \A r \in 1..NRows(result.df) :
            LET row == result.df.rows[r] IN
            row["pressing_score"] =
                Blend(row["Tkl_90_norm"], row["Int_90_norm"],
                      row["Tkl%_norm"], row["Att3rd_90_norm"])

\* a returned row whose normalized Tkl% and normalized Att3rd/90s are
\* finite and differ, so that the two assignments of 0.20 and 0.15 give
\* different scores
C15_Witness ==
    /\ PressingDone
    /\ result.kind = "DataFrame"
    /\ \E r \in 1..NRows(result.df) :
          LET row == result.df.rows[r] IN
          /\ IsFinite(row["pressing_score"])
          /\ ~FEq(row["Tkl%_norm"], row["Att3rd_90_norm"])

----------------------------------------------------------------------------
(* The second normalization, over the joined rows                          *)

\* p-th percentile of the values of a column that are not NaN, NaN when
\* there is none
PercentileOfPresent(s, p) ==
    LET present == SelectSeq(s, LAMBDA x : ~IsNaN(x))
    IN  IF present = <<>> THEN NaN ELSE LinearPercentile(present, p)

RoleScores == {"progression_score", "pressing_score", "playmaker_score"}

\* C16: in the table the composer returns, each of the three role scores
\* is normalized with the 5th and 95th percentiles of that score over the
\* returned (joined) rows, and complete_midfielder_score is 0.40 of the
\* normalized progression score plus 0.30 of the normalized pressing score
\* plus 0.30 of the normalized playmaker score.
C16_Renormalized ==
    ComposerDone /\ result.kind = "DataFrame" =>
        /\ \A c \in RoleScores :
              LET low  == PercentileOfPresent(Col(result.df, c), 5)
                  high == PercentileOfPresent(Col(result.df, c), 95)
              IN  \A r \in 1..NRows(result.df) :
                     result.df.rows[r][c \o "_norm"]
                        = FDiv(FSub(result.df.rows[r][c], low), FSub(high, low))
        /\ \A r \in 1..NRows(result.df) :
              LET row == result.df.rows[r] IN
              row["complete_midfielder_score"]
                 = FAdd(FAdd(FMul(Float(40, 100), row["progression_score_norm"]),
                             FMul(Float(30, 100), row["pressing_score_norm"])),
                        FMul(Float(30, 100), row["playmaker_score_norm"]))

\* the joins have left fewer rows than the progressive table had, and a
\* returned row has a finite complete score
C16_Witness ==
    /\ ComposerDone
    /\ result.kind = "DataFrame"
    /\ NRows(result.df) < NRows(possession_df)
    /\ \E r \in 1..NRows(result.df) :
          IsFinite(result.df.rows[r]["complete_midfielder_score"])

----------------------------------------------------------------------------
(* Claims about the report (specification SpecReport)                      *)

ReportDone == pc = "generate_analysis_report"

\* the items of the dictionary other than "parameters", in order
Categories == SelectSeq(results, LAMBDA item : item[1] # parameters)

IsHeading(chunk) == \E i \in 1..Len(results) : chunk = Heading(results[i][1])

\* C17: given the dictionary of analyze_players, the returned report has
\* one section for every category of the dictionary other than
\* "parameters": the headings of the report are the headings of those
\* categories in dictionary order, none left out, and the report holds the
\* Player/Squad/Age/Pos table of each category that has these columns.
C17_EverySection ==
    ReportDone /\ results = analyze_players =>
        /\ result.kind = "str"
        /\ SelectSeq(result.chunks, IsHeading)
              = [i \in 1..Len(Categories) |-> Heading(Categories[i][1])]
        /\ \A i \in 1..Len(Categories) :
              {"Player", "Squad", "Age", "Pos"} \subseteq Categories[i][2].cols
                 => \E k \in 1..Len(result.chunks) :
                       result.chunks[k]
                          = to_markdown(Project(Categories[i][2],
                                                {"Player", "Squad", "Age", "Pos"}))

====
